---- MODULE Spec2Model ----
(***************************************************************************)
(* State-machine model of LoopStructural's DiscreteInterpolator            *)
(* (src/LoopStructural/interpolators/_discrete_interpolator.py).           *)
(*                                                                         *)
(* Vectors (c, backend results) are functions over 0..n-1, as numpy arrays *)
(* are indexed; Python lists handed in by the caller (A, B, idc, names)    *)
(* are sequences.  A constraint name is the sequence of its "_"-separated  *)
(* tokens, so "grad_0" is <<"grad", "0">>.  Floats are integers; every     *)
(* division the model performs is exact on the inputs it enumerates.       *)
(***************************************************************************)
EXTENDS Integers, Sequences, FiniteSets, TLC

\* ---------------------------------------------------------------- bounds
NNodes == 3          \* support.n_nodes
MaxSoft == 1         \* most soft blocks the caller adds around a solve
MaxNamed == 3        \* most soft blocks the caller adds when names collide
MaxEqRows == 1       \* cap on the running counter eq_const_c
MaxLazy == 2         \* cap on the history counter lazySolves

\* np.nan
NaN == -999

Nodes == 0 .. (NNodes - 1)

VARIABLES
  region,                 \* region_function(support.nodes): the set of active nodes
  constraints,            \* dict of soft blocks, in insertion order
  c_,                     \* row counter
  equal_constraints,      \* dict name -> equality block
  eq_const_c,
  ineq_constraints,       \* dict name -> inequality block
  interpolation_weights,  \* dict key -> weight
  c,                      \* solution vector
  up_to_date,
  solver,                 \* self.solver
  used,                   \* history: strategy the most recent solve ran with
  lazySolves,             \* history: backend solves run by update()/evaluate_*()
                          \*          since the last call of any other kind
  last                    \* history: the call just made and its outcome

vars == <<region, constraints, c_, equal_constraints, eq_const_c, ineq_constraints,
          interpolation_weights, c, up_to_date, solver, used, lazySolves, last>>

\* ------------------------------------------------------------ small helpers
Vec(n, v) == [i \in 0 .. (n - 1) |-> v]
VecLen(v) == Cardinality(DOMAIN v)
isnan(x) == x = NaN

RECURSIVE SumSeq(_)
SumSeq(s) == IF s = <<>> THEN 0 ELSE Head(s) + SumSeq(Tail(s))

RECURSIVE Concat(_)
Concat(ss) == IF ss = <<>> THEN <<>> ELSE Head(ss) \o Concat(Tail(ss))

\* a dict is a sequence of [key, val] records (Python dicts keep insertion order)
Keys(d) == {d[i].key : i \in 1 .. Len(d)}
Put(d, k, v) ==
  IF k \in Keys(d)
    THEN [i \in 1 .. Len(d) |-> IF d[i].key = k THEN [key |-> k, val |-> v] ELSE d[i]]
    ELSE Append(d, [key |-> k, val |-> v])

\* ------------------------------------------------------------------ region
nx == Cardinality(region)
Rank(i) == Cardinality({j \in region : j < i})

\* gi = -1 everywhere, then gi[region] = arange(nx)
gi == [i \in Nodes |-> IF i \in region THEN Rank(i) ELSE -1]

\* region_map = zeros(n_nodes), then region_map[region] = range(nx)
region_map == [i \in Nodes |-> IF i \in region THEN Rank(i) ELSE 0]

\* ------------------------------------------------------------------ strategies
None == [kind |-> "none"]
Callable == [kind |-> "callable"]
Str(s) == [kind |-> "str", name |-> s]
Strategies == {None, Callable, Str("cg"), Str("lsmr"), Str("pyamg")}

\* the record of a call: its name, outcome and arguments, and what it handed on
NoCall == [op |-> "init", ret |-> "none", hook |-> FALSE, entered |-> FALSE,
           solved |-> FALSE, arg |-> None, name |-> <<>>, x |-> <<>>, info |-> 0,
           weights |-> <<>>, pts |-> <<>>, out |-> <<>>,
           locs |-> <<>>, nodes |-> <<>>, values |-> <<>>,
           wkind |-> "none", wlen |-> 0, rows |-> 0, nan |-> FALSE,
           ashape |-> <<>>, ishape |-> <<>>,
           shape |-> <<0, 0>>, blen |-> 0, bounds |-> <<>>]

\* region_function is an attribute of the interpolator: __init__ installs the
\* predicate that takes every node, a subclass or the caller may install
\* another before any constraint is added, and nothing revisits it afterwards
Regions == {Nodes, Nodes \ {1}, {1}}

Init ==
  /\ region \in Regions
  /\ constraints = <<>>
  /\ c_ = 0
  /\ equal_constraints = <<>>
  /\ eq_const_c = 0
  /\ ineq_constraints = <<>>
  /\ interpolation_weights = <<>>
  /\ c = Vec(NNodes, 0)
  /\ up_to_date = FALSE
  /\ solver = Str("cg")
  /\ used = None
  /\ lazySolves = 0
  /\ last = NoCall

\* ---------------------------------------------------------------- operations
RECURSIVE PutAll(_, _)
PutAll(d, ws) == IF ws = <<>> THEN d ELSE PutAll(Put(d, Head(ws).key, Head(ws).val), Tail(ws))

\* mutant: the weights are stored and the flag is left alone
set_interpolation_weights_quietly(weights) ==
  /\ up_to_date' = up_to_date
  /\ interpolation_weights' = PutAll(interpolation_weights, weights)
  /\ lazySolves' = 0
  /\ last' = [NoCall EXCEPT !.op = "set_interpolation_weights", !.weights = weights]
  /\ UNCHANGED <<region, constraints, c_, equal_constraints, eq_const_c,
                 ineq_constraints, c, solver, used>>

set_interpolation_weights(weights) ==
  /\ up_to_date' = IF Len(weights) > 0 THEN FALSE ELSE up_to_date
  /\ interpolation_weights' = PutAll(interpolation_weights, weights)
  /\ lazySolves' = 0
  /\ last' = [NoCall EXCEPT !.op = "set_interpolation_weights", !.weights = weights]
  /\ UNCHANGED <<region, constraints, c_, equal_constraints, eq_const_c,
                 ineq_constraints, c, solver, used>>

\* mutant: reset() clears the equality registry and its counter as well
reset_everything ==
  /\ constraints' = <<>>
  /\ c_' = 0
  /\ equal_constraints' = <<>>
  /\ eq_const_c' = 0
  /\ lazySolves' = 0
  /\ last' = [NoCall EXCEPT !.op = "reset"]
  /\ UNCHANGED <<region, ineq_constraints, interpolation_weights, c, up_to_date, solver, used>>

reset ==
  /\ constraints' = <<>>
  /\ c_' = 0
  /\ lazySolves' = 0
  /\ last' = [NoCall EXCEPT !.op = "reset"]
  /\ UNCHANGED <<region, equal_constraints, eq_const_c, ineq_constraints,
                 interpolation_weights, c, up_to_date, solver, used>>

\* ------------------------------------------------- add_constraints_to_least_squares
\* np.array(M).shape of a list of rows
Shape(M) == <<Len(M), IF Len(M) = 0 THEN 0 ELSE Len(M[1])>>

Isqrt(s) == CHOOSE n \in 0 .. s : n * n = s

\* np.linalg.norm(A, axis=1) for one row; NaN if the row holds a NaN
RowNorm(row) ==
  IF \E k \in 1 .. Len(row) : isnan(row[k])
    THEN NaN
    ELSE Isqrt(SumSeq([k \in 1 .. Len(row) |-> row[k] * row[k]]))

\* length > 0 is False for a NaN length
Positive(x) == ~isnan(x) /\ x > 0

FDiv(a, b) == IF isnan(a) \/ isnan(b) THEN NaN ELSE a \div b

\* B[length > 0] /= length[length > 0]
NormaliseB(A, B) ==
  [r \in 1 .. Len(B) |-> IF Positive(RowNorm(A[r])) THEN FDiv(B[r], RowNorm(A[r])) ELSE B[r]]

\* A[mask, :] = 0 for the rows holding a NaN, then A[length > 0, :] /= length
NormaliseA(A) ==
  [r \in 1 .. Len(A) |->
     IF isnan(RowNorm(A[r]))
       THEN [k \in 1 .. Len(A[r]) |-> 0]
       ELSE IF Positive(RowNorm(A[r]))
         THEN [k \in 1 .. Len(A[r]) |-> FDiv(A[r][k], RowNorm(A[r]))]
         ELSE A[r]]

\* the weight argument: a float/int, a numpy array, or anything else (a list, None)
Scalar(v) == [kind |-> "scalar", v |-> v]
Array(v) == [kind |-> "array", v |-> v]
Other == [kind |-> "other"]

\* int(tok) and "{}".format(count) on the decimal tokens the model uses
IntOf == ("0" :> 0) @@ ("1" :> 1) @@ ("2" :> 2) @@ ("3" :> 3) @@ ("4" :> 4) @@
         ("5" :> 5) @@ ("6" :> 6) @@ ("7" :> 7) @@ ("8" :> 8) @@ ("9" :> 9)
IsNumeric(tok) == tok \in DOMAIN IntOf
Format(n) == CHOOSE tok \in DOMAIN IntOf : IntOf[tok] = n

\* while name in self.constraints: ...   (lines 206-211)
\* "ok" with the free name found, "raise" when int() meets a token that is no
\* number, "hang" when the loop comes back to a name it has already tried.
\* mutant: "if name in self.constraints" in place of the while loop
ResolveNameOnce(name, base_name, keys, tried) ==
  IF name \notin keys THEN [st |-> "ok", name |-> name]
  ELSE IF Len(name) > 1 /\ ~IsNumeric(name[2]) THEN [st |-> "raise", name |-> name]
  ELSE [st |-> "ok",
        name |-> Append(base_name, Format(IF Len(name) > 1 THEN IntOf[name[2]] + 1 ELSE 0))]

RECURSIVE ResolveName(_, _, _, _)
ResolveName(name, base_name, keys, tried) ==
  IF name \notin keys THEN [st |-> "ok", name |-> name]
  ELSE IF Len(name) > 1 /\ ~IsNumeric(name[2]) THEN [st |-> "raise", name |-> name]
  ELSE LET count == IF Len(name) > 1 THEN IntOf[name[2]] + 1 ELSE 0
           next == Append(base_name, Format(count))
       IN IF next \in tried \cup {name}
            THEN [st |-> "hang", name |-> next]
            ELSE ResolveName(next, base_name, keys, tried \cup {name})

\* sparse.coo_matrix(..., shape=(n_rows, nx)) rejects a column outside 0..nx-1
ColumnsFit(idc) ==
  \A r \in 1 .. Len(idc) : \A k \in 1 .. Len(idc[r]) : idc[r][k] \in 0 .. (nx - 1)

\* the block as it is stored: the coo matrix of the normalised rows, b and w
Block(A, B, idc, wv) ==
  [matrix |-> [shape |-> <<Len(A), nx>>, data |-> NormaliseA(A), cols |-> idc],
   b |-> NormaliseB(A, B), w |-> wv]

\* astype(int) of a float index; the cast of NaN is whatever the platform's
\* float-to-integer conversion gives: the most negative integer (here that of
\* 32 bits), or 0
MinInt == -2147483647 - 1
NaNAsInt == {MinInt, 0}
AsInt(idc, cast) ==
  [r \in 1 .. Len(idc) |-> [k \in 1 .. Len(idc[r]) |-> IF isnan(idc[r][k]) THEN cast ELSE idc[r][k]]]

HasNaN(M) == \E r \in 1 .. Len(M) : \E k \in 1 .. Len(M[r]) : isnan(M[r][k])

\* np.any(np.isnan(idc)) or np.any(np.isnan(A)) or np.any(np.isnan(B)), on the
\* normalised A and B
RemainingNaN(A, B, idc) ==
  \/ HasNaN(idc)
  \/ HasNaN(NormaliseA(A))
  \/ \E r \in 1 .. Len(B) : isnan(NormaliseB(A, B)[r])

\* what the caller passed, as the claims speak of it: the weight and the shapes
\* of A and idc
Passed(ashape, ishape, w) == [w |-> w, ashape |-> ashape, ishape |-> ishape]

\* how a call of add_constraints_to_least_squares ends; nan is whether line 202
\* saw a NaN
AddReturn(ret, name, passed, nan) ==
  /\ last' = [NoCall EXCEPT !.op = "add_constraints_to_least_squares", !.ret = ret,
                            !.name = name, !.wkind = passed.w.kind,
                            !.wlen = IF passed.w.kind = "array" THEN Len(passed.w.v) ELSE 0,
                            !.rows = passed.ashape[1], !.nan = nan,
                            !.ashape = passed.ashape, !.ishape = passed.ishape]
  /\ lazySolves' = 0
  /\ UNCHANGED <<region, c_, equal_constraints, eq_const_c, ineq_constraints,
                 interpolation_weights, c, up_to_date, solver, used>>

\* mutant: a shape mismatch raises
RejectedLoudly(name, passed) ==
  AddReturn("raise", name, passed, FALSE) /\ UNCHANGED constraints

\* logger.error(...); return
Rejected(name, passed) ==
  AddReturn("rejected", name, passed, FALSE) /\ UNCHANGED constraints

\* mutant: the length of a weight array is not compared with the row count
BadWeightAnyLength(w, n_rows) == w.kind = "other"

\* the two raises of lines 192-201
BadWeight(w, n_rows) ==
  \/ w.kind = "other"
  \/ w.kind = "array" /\ Len(w.v) # n_rows

\* lines 185-220, on a block of two dimensions.  A NaN left in idc, A or B is
\* logged and the call goes on (the return of line 204 is commented out).
StoreRows(A, B, idc, w, name, passed) ==
  LET n_rows == Len(A)
      wv == IF w.kind = "scalar" THEN [r \in 1 .. n_rows |-> w.v] ELSE w.v
      res == ResolveName(name, name, Keys(constraints), {})
      nan == RemainingNaN(A, B, idc)
  IN  IF BadWeight(w, n_rows)
        THEN AddReturn("raise", name, passed, FALSE) /\ UNCHANGED constraints
      ELSE IF res.st # "ok"
        THEN AddReturn(res.st, name, passed, nan) /\ UNCHANGED constraints
      ELSE \E cast \in NaNAsInt :
             IF ~ColumnsFit(AsInt(idc, cast))
               THEN AddReturn("raise", name, passed, nan) /\ UNCHANGED constraints
               ELSE /\ AddReturn("stored", name, passed, nan)
                    /\ constraints' = Put(constraints, res.name,
                                          Block(A, B, AsInt(idc, cast), wv))

\* A and idc given as lists of rows (two dimensions): the reshaping branch of
\* lines 177-183 is not entered
add_constraints_to_least_squares(A, B, idc, w, name) ==
  IF Shape(A) # Shape(idc)
    THEN Rejected(name, Passed(Shape(A), Shape(idc), w))
    ELSE StoreRows(A, B, idc, w, name, Passed(Shape(A), Shape(idc), w))

\* np.array(T).shape of a list of lists of rows
Shape3(T) ==
  <<Len(T),
    IF Len(T) = 0 THEN 0 ELSE Len(T[1]),
    IF Len(T) = 0 \/ Len(T[1]) = 0 THEN 0 ELSE Len(T[1][1])>>

\* np.tile(w, k)
Tile(w, k) == Concat([i \in 1 .. k |-> w])

\* A, B and idc given with three dimensions (lines 177-183): the row count is
\* A.shape[0] * A.shape[1], a weight array is tiled A.shape[1] times, and A, idc
\* and B are flattened row-major
add_constraints_to_least_squares_3d(A, B, idc, w, name) ==
  IF Shape3(A) # Shape3(idc)
    THEN Rejected(name, Passed(Shape3(A), Shape3(idc), w))
    ELSE StoreRows(Concat(A), Concat(B), Concat(idc),
                   IF w.kind = "array" THEN Array(Tile(w.v, Shape3(A)[2])) ELSE w,
                   name, Passed(Shape3(A), Shape3(idc), w))

\* ------------------------------------------------------- equality / inequality
\* mutant: no entry is dropped
outside_all(idc) == {i \in 1 .. Len(idc) : TRUE}

\* outside = ~(idc == -1): the entries that are kept
outside(idc) == {i \in 1 .. Len(idc) : ~(idc[i] = -1)}

add_equality_constraints(node_idx, values, name) ==
  LET idc == [i \in 1 .. Len(node_idx) |-> gi[node_idx[i]]]
      keep == SelectSeq([i \in 1 .. Len(idc) |-> i], LAMBDA i : i \in outside(idc))
      n == Len(keep)
  IN  /\ equal_constraints' = Put(equal_constraints, name,
           [A |-> [i \in 1 .. n |-> 1],
            B |-> [i \in 1 .. n |-> values[keep[i]]],
            col |-> [i \in 1 .. n |-> idc[keep[i]]],
            row |-> [i \in 1 .. n |-> eq_const_c + i - 1]])
      /\ eq_const_c' = eq_const_c + n
      /\ lazySolves' = 0
      /\ last' = [NoCall EXCEPT !.op = "add_equality_constraints", !.name = name,
                                !.nodes = node_idx, !.values = values]
      /\ UNCHANGED <<region, constraints, c_, ineq_constraints, interpolation_weights,
                     c, up_to_date, solver, used>>

add_inequality_constraints_to_matrix(A, bounds, idc, name) ==
  LET mapped == [r \in 1 .. Len(idc) |-> [k \in 1 .. Len(idc[r]) |-> gi[idc[r][k]]]]
      op == "add_inequality_constraints_to_matrix"
  IN  /\ lazySolves' = 0
      /\ UNCHANGED <<region, constraints, c_, equal_constraints, eq_const_c,
                     interpolation_weights, c, up_to_date, solver, used>>
      /\ IF ~ColumnsFit(mapped)
           THEN /\ last' = [NoCall EXCEPT !.op = op, !.ret = "raise", !.name = name]
                /\ UNCHANGED ineq_constraints
           ELSE /\ last' = [NoCall EXCEPT !.op = op, !.ret = "stored", !.name = name]
                /\ ineq_constraints' = Put(ineq_constraints, name,
                     [matrix |-> [shape |-> <<Len(idc), nx>>, data |-> A, cols |-> mapped],
                      bounds |-> bounds])

\* ------------------------------------------------------------------ assembly
FMul(a, b) == IF isnan(a) \/ isnan(b) THEN NaN ELSE a * b

\* c['matrix'].multiply(c['w'][:, None]) and c['b'] * c['w'] of one soft block
WeightedRows(blk) ==
  [r \in 1 .. Len(blk.w) |->
     [cols |-> blk.matrix.cols[r],
      data |-> [k \in 1 .. Len(blk.matrix.data[r]) |-> FMul(blk.matrix.data[r][k], blk.w[r])],
      b |-> FMul(blk.b[r], blk.w[r])]]

\* mutant: the blocks with an empty weight array are stacked with the others
build_matrix_keeping_empty(cons) ==
  LET rows == Concat([i \in 1 .. Len(cons) |-> WeightedRows(cons[i].val)])
  IN [st |-> "ok", rows |-> rows, shape |-> <<Len(rows), nx>>]

\* the stacked weighted system, a row a record [cols, data, b]; sparse.vstack and
\* np.hstack raise on an empty list of blocks
build_matrix(cons) ==
  LET live == SelectSeq(cons, LAMBDA e : Len(e.val.w) # 0)
  IN  IF live = <<>>
        THEN [st |-> "raise", rows |-> <<>>, shape |-> <<0, 0>>]
        ELSE LET rows == Concat([i \in 1 .. Len(live) |-> WeightedRows(live[i].val)])
             IN [st |-> "ok", rows |-> rows, shape |-> <<Len(rows), nx>>]

\* a call of build_matrix(): what it returns, and nothing else touched
BuildMatrix ==
  LET bm == build_matrix(constraints)
  IN  /\ last' = [NoCall EXCEPT !.op = "build_matrix", !.ret = bm.st, !.shape = bm.shape,
                                !.blen = Len([r \in 1 .. Len(bm.rows) |-> bm.rows[r].b])]
      /\ lazySolves' = 0
      /\ UNCHANGED <<region, constraints, c_, equal_constraints, eq_const_c, ineq_constraints,
                     interpolation_weights, c, up_to_date, solver, used>>

\* np.hstack of a list of two-dimensional arrays: the rows of the arrays side
\* by side; it raises when the arrays differ in their number of rows
HStack(arrs) ==
  IF \E i \in 1 .. Len(arrs) : Len(arrs[i]) # Len(arrs[1])
    THEN [st |-> "raise", v |-> <<>>]
    ELSE [st |-> "ok",
          v |-> [r \in 1 .. Len(arrs[1]) |-> Concat([i \in 1 .. Len(arrs) |-> arrs[i][r]])]]

\* Q, bounds of the registered inequality blocks; sparse.vstack raises on an
\* empty list of blocks
build_inequality_matrix(ineq) ==
  LET mats == [i \in 1 .. Len(ineq) |-> ineq[i].val.matrix]
      bounds == HStack([i \in 1 .. Len(ineq) |-> ineq[i].val.bounds])
  IN  IF ineq = <<>> \/ bounds.st = "raise"
        THEN [st |-> "raise", shape |-> <<0, 0>>, bounds |-> <<>>]
        ELSE [st |-> "ok",
              shape |-> <<SumSeq([i \in 1 .. Len(mats) |-> mats[i].shape[1]]), mats[1].shape[2]>>,
              bounds |-> bounds.v]

\* a call of build_inequality_matrix(): what it returns, and nothing else touched
BuildInequalityMatrix ==
  LET bi == build_inequality_matrix(ineq_constraints)
  IN  /\ last' = [NoCall EXCEPT !.op = "build_inequality_matrix", !.ret = bi.st,
                                !.shape = bi.shape, !.bounds = bi.bounds]
      /\ lazySolves' = 0
      /\ UNCHANGED <<region, constraints, c_, equal_constraints, eq_const_c, ineq_constraints,
                     interpolation_weights, c, up_to_date, solver, used>>

\* ------------------------------------------------------------------- backend
\* The sparse backend (scipy's cg and lsmr, or the caller's callable) is outside
\* the repository.  It is handed a system of ncols unknowns and answers with a
\* vector of ncols entries.  Both iterations start from zero and move only
\* along the rows of the system, so an unknown no row touches stays 0; the
\* touched unknowns take the values of an exact solution when the system has
\* one in the value domain, and otherwise (a least-squares compromise, or the
\* last iterate of a run that did not converge) any values.
Val == {1, 5}

Touched(rows) ==
  UNION {{rows[r].cols[k] : k \in {kk \in 1 .. Len(rows[r].data) : rows[r].data[kk] # 0}}
           : r \in 1 .. Len(rows)}

Iterates(rows, ncols) ==
  LET T == Touched(rows)
  IN {[j \in 0 .. (ncols - 1) |-> IF j \in T THEN f[j] ELSE 0] : f \in [T -> Val]}

RowHolds(row, x) ==
  SumSeq([k \in 1 .. Len(row.data) |-> row.data[k] * x[row.cols[k]]]) = row.b

Exact(rows, ncols) == {x \in Iterates(rows, ncols) : \A r \in 1 .. Len(rows) : RowHolds(rows[r], x)}

AllZero(rows) == \A r \in 1 .. Len(rows) : rows[r].b = 0

\* cg: (x, info), info 0 on convergence and the iteration count (> 0) otherwise
CgResults(rows, ncols) ==
  {[x |-> x, info |-> 0] : x \in Exact(rows, ncols)}
    \cup {[x |-> x, info |-> 1] : x \in Iterates(rows, ncols)}

\* lsmr: (x, istop): 0 x = 0 is the exact solution; 1, 2 a solution within
\* tolerance; 3 cond(A) too large; 4, 5, 6 the same at machine precision;
\* 7 the iteration limit
LsmrResults(rows, ncols) ==
  {[x |-> Vec(ncols, 0), info |-> 0] : z \in IF AllZero(rows) THEN {0} ELSE {}}
    \cup {[x |-> x, info |-> i] : x \in Exact(rows, ncols), i \in {1, 2, 4, 5}}
    \cup {[x |-> x, info |-> i] : x \in Iterates(rows, ncols), i \in {3, 6, 7}}

\* a callable strategy honouring solve(A_csr, b) -> c
CallableResults(rows, ncols) == {[x |-> x, info |-> 0] : x \in Exact(rows, ncols)}

\* ---------------------------------------------------------------- solve_system
\* The outcomes of solve_system(slv) run on the soft registry cons with the flag
\* at utd: c, up_to_date, the return value ("True", "False" or "raise"), the
\* strategy that ran (None when no backend ran), and the backend's answer.
StrategyRun(slv) ==
  IF slv.kind = "callable" THEN Callable
  ELSE IF slv.kind = "str" /\ slv.name \notin {"cg", "lsmr"} THEN Str("cg")
  ELSE IF slv.kind = "str" THEN slv
  ELSE None

Outcome(cc, utd, ret, ran, x, info) ==
  [c |-> cc, up_to_date |-> utd, ret |-> ret, ran |-> ran, x |-> x, info |-> info]

\* mutant: a cg run that did not converge is a failure, nothing is stored
solve_system_strict(slv, cons, utd) ==
  LET nan == Vec(NNodes, NaN)
      bm == build_matrix(cons)
      ran == StrategyRun(slv)
  IN  IF bm.st = "raise"
        THEN {Outcome(nan, utd, "raise", None, <<>>, 0)}
      ELSE IF ran = Callable
        THEN {Outcome(r.x, TRUE, "True", ran, r.x, r.info) : r \in CallableResults(bm.rows, bm.shape[2])}
      ELSE IF ran = Str("cg")
        THEN {IF r.info > 0 THEN Outcome(nan, utd, "False", ran, r.x, r.info)
                            ELSE Outcome(r.x, TRUE, "True", ran, r.x, r.info)
                : r \in CgResults(bm.rows, bm.shape[2])}
      ELSE IF ran = Str("lsmr")
        THEN {Outcome(IF r.info \in {1, 2, 4, 5, 7} THEN r.x ELSE nan, TRUE, "True", ran, r.x, r.info)
                : r \in LsmrResults(bm.rows, bm.shape[2])}
      ELSE {Outcome(nan, utd, "False", None, <<>>, 0)}

solve_system(slv, cons, utd) ==
  LET nan == Vec(NNodes, NaN)
      bm == build_matrix(cons)
      ran == StrategyRun(slv)
  IN  IF bm.st = "raise"
        THEN {Outcome(nan, utd, "raise", None, <<>>, 0)}
      ELSE IF ran = Callable
        THEN {Outcome(r.x, TRUE, "True", ran, r.x, r.info) : r \in CallableResults(bm.rows, bm.shape[2])}
      ELSE IF ran = Str("cg")
        THEN {Outcome(r.x, TRUE, "True", ran, r.x, r.info) : r \in CgResults(bm.rows, bm.shape[2])}
      ELSE IF ran = Str("lsmr")
        THEN {Outcome(IF r.info \in {1, 2, 4, 5, 7} THEN r.x ELSE nan, TRUE, "True", ran, r.x, r.info)
                : r \in LsmrResults(bm.rows, bm.shape[2])}
      ELSE {Outcome(nan, utd, "False", None, <<>>, 0)}

\* mutant: a solve that finds inequality constraints registered gives up
SolveSystemBounded(slv) ==
  \E o \in solve_system(IF ineq_constraints = <<>> THEN slv ELSE None, constraints, up_to_date) :
    /\ c' = o.c
    /\ up_to_date' = o.up_to_date
    /\ used' = IF o.ran = None THEN used ELSE o.ran
    /\ lazySolves' = 0
    /\ last' = [NoCall EXCEPT !.op = "solve_system", !.ret = o.ret, !.entered = TRUE,
                              !.solved = (o.ran # None), !.arg = slv, !.x = o.x,
                              !.info = o.info]
    /\ UNCHANGED <<region, constraints, c_, equal_constraints, eq_const_c,
                   ineq_constraints, interpolation_weights, solver>>

SolveSystem(slv) ==
  \E o \in solve_system(slv, constraints, up_to_date) :
    /\ c' = o.c
    /\ up_to_date' = o.up_to_date
    /\ used' = IF o.ran = None THEN used ELSE o.ran
    /\ lazySolves' = 0
    /\ last' = [NoCall EXCEPT !.op = "solve_system", !.ret = o.ret, !.entered = TRUE,
                              !.solved = (o.ran # None), !.arg = slv, !.x = o.x,
                              !.info = o.info]
    /\ UNCHANGED <<region, constraints, c_, equal_constraints, eq_const_c,
                   ineq_constraints, interpolation_weights, solver>>

\* ------------------------------------------------------------------- update
\* setup_interpolator(), the hook of the concrete interpolator that
\* (re)populates the constraints: it either has nothing to set up and leaves
\* the registry as it is, or resets it and adds its value constraint.
setup_interpolator ==
  {constraints}
    \cup {<<[key |-> <<"value">>, val |-> Block(<<<<2>>>>, <<2>>, <<<<0>>>>, <<1>>)]>>
            : z \in IF nx > 0 THEN {0} ELSE {}}

\* mutant: the up_to_date test is dropped, every call sets up and solves
UpdateAlways ==
  IF solver = None
    THEN {[cons |-> constraints, c_ |-> c_, hook |-> FALSE, entered |-> FALSE, ret |-> "False",
           o |-> Outcome(c, up_to_date, "False", None, <<>>, 0)]}
  ELSE UNION {{[cons |-> h, c_ |-> IF h = constraints THEN c_ ELSE 0,
                hook |-> TRUE, entered |-> TRUE, ret |-> o.ret, o |-> o]
                 : o \in solve_system(solver, h, up_to_date)} : h \in setup_interpolator}

\* mutant: the "solver is None" test is dropped
UpdateUnguarded ==
  IF ~up_to_date
    THEN UNION {{[cons |-> h, c_ |-> IF h = constraints THEN c_ ELSE 0,
                  hook |-> TRUE, entered |-> TRUE, ret |-> o.ret, o |-> o]
                   : o \in solve_system(solver, h, up_to_date)} : h \in setup_interpolator}
  ELSE {[cons |-> constraints, c_ |-> c_, hook |-> FALSE, entered |-> FALSE, ret |-> "None",
         o |-> Outcome(c, up_to_date, "None", None, <<>>, 0)]}

\* The outcomes of update(): the registry the hook left (and the row counter),
\* then those of solve_system(self.solver)
Update ==
  IF solver = None
    THEN {[cons |-> constraints, c_ |-> c_, hook |-> FALSE, entered |-> FALSE, ret |-> "False",
           o |-> Outcome(c, up_to_date, "False", None, <<>>, 0)]}
  ELSE IF ~up_to_date
    THEN UNION {{[cons |-> h, c_ |-> IF h = constraints THEN c_ ELSE 0,
                  hook |-> TRUE, entered |-> TRUE, ret |-> o.ret, o |-> o]
                   : o \in solve_system(solver, h, up_to_date)} : h \in setup_interpolator}
  ELSE {[cons |-> constraints, c_ |-> c_, hook |-> FALSE, entered |-> FALSE, ret |-> "None",
         o |-> Outcome(c, up_to_date, "None", None, <<>>, 0)]}

\* what update() does to the state, shared by update(), evaluate_value() and
\* evaluate_gradient()
Lazily(u, op, locs, pts, out) ==
  /\ constraints' = u.cons
  /\ c_' = u.c_
  /\ c' = u.o.c
  /\ up_to_date' = u.o.up_to_date
  /\ used' = IF u.o.ran = None THEN used ELSE u.o.ran
  /\ lazySolves' = lazySolves + (IF u.o.ran = None THEN 0 ELSE 1)
  /\ last' = [NoCall EXCEPT !.op = op, !.ret = u.ret, !.hook = u.hook,
                            !.entered = u.entered, !.solved = (u.o.ran # None),
                            !.arg = solver, !.x = u.o.x, !.info = u.o.info,
                            !.locs = locs, !.pts = pts, !.out = out]
  /\ UNCHANGED <<region, equal_constraints, eq_const_c, ineq_constraints,
                 interpolation_weights, solver>>

update == \E u \in Update : Lazily(u, "update", <<>>, <<>>, <<>>)

\* ----------------------------------------------------------------- evaluation
\* The Support's kernels are outside the repository.  A point is the index of
\* the node it sits on, or NaN for a point with a NaN coordinate; the value at
\* a node is that node's coefficient and the gradient the forward difference.
SupportValue(p, cc) == IF isnan(p) \/ p \notin DOMAIN cc THEN NaN ELSE cc[p]
SupportGradient(p, cc) ==
  IF isnan(p) \/ p \notin DOMAIN cc \/ (p + 1) \notin DOMAIN cc THEN NaN
  ELSE IF isnan(cc[p]) \/ isnan(cc[p + 1]) THEN NaN
  ELSE cc[p + 1] - cc[p]

\* evaluation_points == np.nan compares every coordinate with NaN, and no
\* float, NaN included, is equal to NaN
EqualsNaN(p) == FALSE

evaluate_value(locations) ==
  \E u \in Update :
    LET mask == [i \in 1 .. Len(locations) |-> EqualsNaN(locations[i])]
        passed == SelectSeq(locations, LAMBDA p : ~EqualsNaN(p))
        got == [i \in 1 .. Len(passed) |-> SupportValue(passed[i], u.o.c)]
        Pos(i) == Cardinality({j \in 1 .. i : ~mask[j]})
        evaluated == [i \in 1 .. Len(locations) |-> IF mask[i] THEN 0 ELSE got[Pos(i)]]
    IN  IF u.ret = "raise"
          THEN Lazily(u, "evaluate_value", locations, <<>>, <<>>)
          ELSE Lazily(u, "evaluate_value", locations, passed, evaluated)

evaluate_gradient(locations) ==
  \E u \in Update :
    IF u.ret = "raise" \/ Len(locations) = 0
      THEN Lazily(u, "evaluate_gradient", locations, <<>>, <<>>)
      ELSE Lazily(u, "evaluate_gradient", locations, locations,
                  [i \in 1 .. Len(locations) |-> SupportGradient(locations[i], u.o.c)])

\* self.solver is a plain attribute: the caller (or a subclass) assigns it
set_solver(slv) ==
  /\ solver' = slv
  /\ lazySolves' = 0
  /\ last' = [NoCall EXCEPT !.op = "set_solver", !.arg = slv]
  /\ UNCHANGED <<region, constraints, c_, equal_constraints, eq_const_c, ineq_constraints,
                 interpolation_weights, c, up_to_date, used>>

\* ---------------------------------------------------------------- environments
\* a call that never returns (the name loop spinning) ends the run
Running == last.ret # "hang"

\* one row asking node column j for the value 1: 2 x = 2
ValueRow(j) == [A |-> <<<<2>>>>, B |-> <<2>>, idc |-> <<<<j>>>>]

BaseNames == {<<"grad">>, <<"norm">>, <<"gradient", "orthogonal">>, <<"grad", "3">>}

NextNames ==
  \/ \E name \in BaseNames, j \in {0, 1} \cap (0 .. (nx - 1)) :
       /\ Running
       /\ Len(constraints) < MaxNamed
       /\ add_constraints_to_least_squares(ValueRow(j).A, ValueRow(j).B, ValueRow(j).idc,
                                           Scalar(1), name)
  \/ /\ Running
     /\ reset

Weights == {<<>>, <<[key |-> "cpw", val |-> 1]>>}
Locations == {<<>>, <<NaN, 0>>}

\* the column of node 1 when it is active, and column 0 otherwise
Col1 == IF 1 \in region THEN gi[1] ELSE 0

AddSoft ==
  /\ Len(constraints) < MaxSoft
  /\ add_constraints_to_least_squares(ValueRow(Col1).A, ValueRow(Col1).B, ValueRow(Col1).idc,
                                      Scalar(1), <<"grad">>)

AddEquality ==
  /\ eq_const_c < MaxEqRows
  /\ add_equality_constraints(<<1>>, <<5>>, <<"undefined">>)

\* the solve cycle: constraints in, solve, lazy re-solve and evaluation
Next ==
  \/ \E w \in Weights : set_interpolation_weights(w)
  \/ AddSoft
  \/ AddEquality
  \/ \E slv \in Strategies : SolveSystem(slv)
  \/ /\ lazySolves < MaxLazy
     /\ update
  \/ \E l \in Locations : lazySolves < MaxLazy /\ evaluate_value(l)
  \/ \E l \in Locations : lazySolves < MaxLazy /\ evaluate_gradient(l)
  \/ \E slv \in Strategies : set_solver(slv)

\* every call that changes weights or a constraint registry, around a cg solve
NextMutate ==
  \/ \E w \in Weights : set_interpolation_weights(w)
  \/ reset
  \/ AddSoft
  \/ AddEquality
  \/ add_inequality_constraints_to_matrix(<<<<1>>>>, <<<<0, 9>>>>, <<<<1>>>>, <<"undefined">>)
  \/ SolveSystem(Str("cg"))
  \/ /\ lazySolves < MaxLazy
     /\ update

\* the soft blocks of the input study: well formed, holding a NaN in B, A or
\* idc, of mismatched shapes, with a weight of the wrong type or length, empty
MaxBlocks == 2
SoftCalls ==
  <<[A |-> <<<<2>>>>, B |-> <<2>>, idc |-> <<<<0>>>>, w |-> Scalar(1)],
    [A |-> <<<<2>>>>, B |-> <<2>>, idc |-> <<<<0>>>>, w |-> Array(<<1>>)],
    [A |-> <<<<2>>>>, B |-> <<NaN>>, idc |-> <<<<0>>>>, w |-> Scalar(1)],
    [A |-> <<<<NaN>>>>, B |-> <<2>>, idc |-> <<<<0>>>>, w |-> Scalar(1)],
    [A |-> <<<<2>>>>, B |-> <<2>>, idc |-> <<<<NaN>>>>, w |-> Scalar(1)],
    [A |-> <<<<2>>>>, B |-> <<2>>, idc |-> <<<<0, 0>>>>, w |-> Scalar(1)],
    [A |-> <<<<2>>>>, B |-> <<2>>, idc |-> <<<<0>>>>, w |-> Other],
    [A |-> <<<<2>>>>, B |-> <<2>>, idc |-> <<<<0>>>>, w |-> Array(<<1, 1>>)],
    [A |-> <<>>, B |-> <<>>, idc |-> <<>>, w |-> Array(<<>>)]>>

\* one sample of two rows, A of shape (1, 2, 1), under three weights, and once
\* with an idc of shape (1, 1, 1)
SoftCalls3d ==
  <<[A |-> <<<<<<2>>, <<2>>>>>>, B |-> <<<<2, 2>>>>, idc |-> <<<<<<0>>, <<0>>>>>>, w |-> Scalar(1)],
    [A |-> <<<<<<2>>, <<2>>>>>>, B |-> <<<<2, 2>>>>, idc |-> <<<<<<0>>, <<0>>>>>>, w |-> Array(<<1>>)],
    [A |-> <<<<<<2>>, <<2>>>>>>, B |-> <<<<2, 2>>>>, idc |-> <<<<<<0>>, <<0>>>>>>, w |-> Array(<<1, 1>>)],
    [A |-> <<<<<<2>>, <<2>>>>>>, B |-> <<<<2, 2>>>>, idc |-> <<<<<<0>>>>>>, w |-> Scalar(1)]>>

NextInputs ==
  \/ \E i \in 1 .. Len(SoftCalls) :
       /\ Len(constraints) < MaxBlocks
       /\ add_constraints_to_least_squares(SoftCalls[i].A, SoftCalls[i].B, SoftCalls[i].idc,
                                           SoftCalls[i].w, <<"grad">>)
  \/ \E i \in 1 .. Len(SoftCalls3d) :
       /\ Len(constraints) < MaxBlocks
       /\ add_constraints_to_least_squares_3d(SoftCalls3d[i].A, SoftCalls3d[i].B,
                                              SoftCalls3d[i].idc, SoftCalls3d[i].w, <<"grad">>)
  \/ BuildMatrix
  \/ reset

\* equality constraints under two names, on nodes inside and outside the region
MaxEqTotal == 3
EqNames == {<<"undefined">>, <<"fixed">>}
EqCalls == {[node_idx |-> <<0>>, values |-> <<5>>],
            [node_idx |-> <<1>>, values |-> <<1>>],
            [node_idx |-> <<0, 1>>, values |-> <<5, 1>>],
            [node_idx |-> <<1, 0>>, values |-> <<1, 5>>]}

NextEq ==
  \/ \E k \in EqCalls, name \in EqNames :
       /\ eq_const_c < MaxEqTotal
       /\ add_equality_constraints(k.node_idx, k.values, name)
  \/ reset

\* one row asking node column j for the value 0: 2 x = 0
ZeroRow(j) == [A |-> <<<<2>>>>, B |-> <<0>>, idc |-> <<<<j>>>>]

\* lsmr on systems with a target of 0 or of 1, weighted by 1 or by 0
NextLsmr ==
  \/ \E row \in {ValueRow(Col1), ZeroRow(Col1)}, w \in {0, 1} :
       /\ Len(constraints) < MaxSoft
       /\ add_constraints_to_least_squares(row.A, row.B, row.idc, Scalar(w), <<"grad">>)
  \/ reset
  \/ SolveSystem(Str("lsmr"))

\* inequality blocks of one and of two rows under three names
IneqNames == {<<"undefined">>, <<"inequality", "value">>, <<"inequality", "pairs">>}
IneqCalls ==
  {[A |-> <<<<1>>>>, bounds |-> <<<<0, 9>>>>, idc |-> <<<<1>>>>],
   [A |-> <<<<1>>>>, bounds |-> <<<<1, 5>>>>, idc |-> <<<<0>>>>],
   [A |-> <<<<1>>, <<1>>>>, bounds |-> <<<<0, 9>>, <<1, 5>>>>, idc |-> <<<<1>>, <<1>>>>]}

NextIneq ==
  \/ \E k \in IneqCalls, name \in IneqNames :
       add_inequality_constraints_to_matrix(k.A, k.bounds, k.idc, name)
  \/ BuildInequalityMatrix

Spec == Init /\ [][Next]_vars
SpecIneq == Init /\ [][NextIneq]_vars
SpecLsmr == Init /\ [][NextLsmr]_vars
SpecInputs == Init /\ [][NextInputs]_vars
SpecEq == Init /\ [][NextEq]_vars
SpecMutate == Init /\ [][NextMutate]_vars
SpecNames == Init /\ [][NextNames]_vars

\* =================================================================== claims
LazyOps == {"update", "evaluate_value", "evaluate_gradient"}
Registries == <<constraints, c_, equal_constraints, eq_const_c, ineq_constraints,
                interpolation_weights>>

\* C1: with a strategy configured, update(), evaluate_value() and
\* evaluate_gradient() calls that follow one another with no other call in
\* between run at most one backend solve: a call made while up_to_date is
\* false runs the setup hook and enters solve_system once and, unless that
\* raises, solves and leaves up_to_date true; a call made while up_to_date is
\* true runs no hook and no solve and leaves c unchanged.
C1_OneSolvePerDirtyPeriod ==
  /\ [](lazySolves <= 1)
  /\ [][(last'.op \in LazyOps /\ solver # None) =>
          IF up_to_date
            THEN ~last'.hook /\ ~last'.entered /\ ~last'.solved /\ c' = c
            ELSE /\ last'.hook /\ last'.entered
                 /\ last'.ret # "raise" => (last'.solved /\ up_to_date')
      ]_vars

\* a lazy call that found the solution of an earlier lazy call still current
C1_Witness ==
  /\ last.op \in LazyOps /\ solver # None
  /\ lazySolves = 1 /\ ~last.solved /\ last.ret = "None" /\ up_to_date

MutatingOps == {"set_interpolation_weights", "add_constraints_to_least_squares",
                "add_equality_constraints", "add_inequality_constraints_to_matrix", "reset"}

\* C2 as claimed: a call that changes the weights or a constraint registry
\* leaves up_to_date false.
C2_MutationInvalidates ==
  [][(last'.op \in MutatingOps /\ Registries' # Registries) => ~up_to_date']_vars

\* C2 as the code has it: set_interpolation_weights with at least one key sets
\* up_to_date to false; with no key, and for add_constraints_to_least_squares,
\* add_equality_constraints, add_inequality_constraints_to_matrix and reset,
\* up_to_date stays as it was, so that an update() that follows them on a
\* solved interpolator does not solve again.
C2_OnlyWeightsInvalidate ==
  [][/\ last'.op \in MutatingOps =>
          up_to_date' = (up_to_date /\ ~(last'.op = "set_interpolation_weights"
                                           /\ Len(last'.weights) > 0))
     /\ (last'.op = "update" /\ up_to_date /\ solver # None) => ~last'.solved
    ]_vars

\* the soft registry emptied after a solve, and the flag still true
C2_Witness == last.op = "reset" /\ up_to_date /\ constraints = <<>> /\ used # None

\* C3: solve_system returns true exactly when a new solution was stored: when
\* it returns true, c is the vector the backend produced in this call and
\* up_to_date is true; when it returns without having stored one, it returns
\* false and up_to_date is as it was.
C3_TrueIffSolutionStored ==
  [][last'.op = "solve_system" =>
       /\ last'.ret = "True" => (last'.solved /\ c' = last'.x /\ up_to_date')
       /\ (last'.ret # "raise" /\ ~(last'.solved /\ c' = last'.x))
            => (last'.ret = "False" /\ up_to_date' = up_to_date)
    ]_vars

\* the backend reported convergence
Converged ==
  \/ last.arg = Callable
  \/ used = Str("cg") /\ last.info = 0
  \/ used = Str("lsmr") /\ last.info \in {1, 2}

\* the node of region column j
NodeOf(j) == CHOOSE i \in region : gi[i] = j

\* C4: after a successful solve_system every stored equality constraint holds
\* exactly, c[i] = v for each active node i it fixes to v; and with an equality
\* constraint and no soft constraint at all the solve succeeds.
C4_EqualityExact ==
  last.op = "solve_system" =>
    /\ (last.ret = "True" /\ Converged) =>
         \A e \in 1 .. Len(equal_constraints) :
           \A k \in 1 .. Len(equal_constraints[e].val.col) :
             LET i == NodeOf(equal_constraints[e].val.col[k])
             IN i \in DOMAIN c /\ c[i] = equal_constraints[e].val.B[k]
    /\ (constraints = <<>> /\ eq_const_c > 0 /\ StrategyRun(last.arg) # None) => last.ret = "True"

\* C5: solve_system called without a strategy, or with a name other than "cg"
\* and "lsmr", on a registry it can assemble, solves with conjugate gradient,
\* stores the result in c, sets up_to_date and returns true.
C5_CgDefaultAndFallback ==
  (/\ last.op = "solve_system"
   /\ build_matrix(constraints).st = "ok"
   /\ last.arg = None \/ (last.arg.kind = "str" /\ last.arg.name \notin {"cg", "lsmr"}))
  => (last.ret = "True" /\ last.solved /\ used = Str("cg") /\ c = last.x /\ up_to_date)

\* C6: update() called while up_to_date is false runs the setup hook and then
\* solves with the strategy the most recent solve ran with.
C6_UpdateReusesStrategy ==
  [][(last'.op = "update" /\ ~up_to_date /\ solver # None /\ used # None /\ last'.solved)
       => (last'.hook /\ used' = used)]_vars

\* C7: update() with no strategy configured returns false, runs neither the
\* hook nor solve_system and changes neither c, up_to_date nor any registry;
\* update() with a strategy configured and up_to_date true changes none of
\* them either.
C7_UpdateNoOp ==
  [][last'.op = "update" =>
       /\ solver = None => (last'.ret = "False" /\ ~last'.hook /\ ~last'.entered
                            /\ c' = c /\ up_to_date' = up_to_date /\ Registries' = Registries)
       /\ (solver # None /\ up_to_date) => (~last'.hook /\ ~last'.entered
                            /\ c' = c /\ up_to_date' = up_to_date /\ Registries' = Registries)
    ]_vars

\* update() refused on a stale interpolator that holds constraints
C7_Witness ==
  /\ last.op = "update" /\ solver = None /\ last.ret = "False"
  /\ ~up_to_date /\ constraints # <<>>

\* C8: c has n_nodes entries in every reachable state, and after a solve that
\* stored a solution the entries of the inactive nodes are NaN.
C8_LengthNNodes ==
  /\ VecLen(c) = NNodes
  /\ (last.entered /\ last.solved /\ c = last.x) => \A i \in Nodes \ region : isnan(c[i])

AddOp == "add_constraints_to_least_squares"
KeySeq(d) == [i \in 1 .. Len(d) |-> d[i].key]
IsPrefix(s, t) == Len(s) <= Len(t) /\ \A i \in 1 .. Len(s) : s[i] = t[i]

\* the keys of the blocks whose name starts with token t, in registry order
Family(d, t) == SelectSeq(KeySeq(d), LAMBDA k : k[1] = t)

\* t, t_0, t_1, ..., t_{k-2}
Suffixed(t, k) == [i \in 1 .. k |-> IF i = 1 THEN <<t>> ELSE <<t, Format(i - 2)>>]

\* C9: add_constraints_to_least_squares never overwrites a stored soft block:
\* every block already stored is still there, unchanged and in place, after the
\* call; an accepted call grows the registry by exactly one entry and any other
\* outcome leaves it as it was; and when the blocks of an underscore-free name t
\* are t, t_0, ..., t_{k-2} in that order, one more accepted addition under t is
\* stored as the next of that list.
C9_NeverOverwrites ==
  [][last'.op = AddOp =>
       /\ IsPrefix(constraints, constraints')
       /\ last'.ret = "stored" => Len(constraints') = Len(constraints) + 1
       /\ last'.ret # "stored" => constraints' = constraints
       /\ \A t \in {"grad", "norm"} :
            (/\ last'.ret = "stored"
             /\ last'.name = <<t>>
             /\ Family(constraints, t) = Suffixed(t, Len(Family(constraints, t))))
            => Family(constraints', t) = Suffixed(t, Len(Family(constraints, t)) + 1)
    ]_vars

\* three additions under "grad" are held as grad, grad_0, grad_1
C9_Witness ==
  /\ last.op = AddOp /\ last.ret = "stored" /\ last.name = <<"grad">>
  /\ KeySeq(constraints) = Suffixed("grad", 3)

\* the collision policy as the claim words it: N is one plus the number after
\* the LAST underscore of the colliding name (0 when it ends in no number)
RECURSIVE ClaimedName(_, _, _)
ClaimedName(cand, name, keys) ==
  IF cand \notin keys THEN cand
  ELSE LET tok == cand[Len(cand)]
           N == IF Len(cand) > 1 /\ IsNumeric(tok) THEN IntOf[tok] + 1 ELSE 0
       IN ClaimedName(Append(name, Format(N)), name, keys)

\* C10: on a name collision for any name, names holding underscores included,
\* the call completes and stores the block under the name with _N appended, N
\* one plus the numeric suffix after the last underscore of the colliding name.
C10_CollisionStoresSuffixed ==
  [][(last'.op = AddOp /\ last'.name \in Keys(constraints))
       => /\ last'.ret = "stored"
          /\ KeySeq(constraints') =
               Append(KeySeq(constraints), ClaimedName(last'.name, last'.name, Keys(constraints)))
    ]_vars
\* ------------------------------------------------------------- input checks
\* C11: when a NaN remains in idc, A or B of the block after the rows have been
\* normalised, add_constraints_to_least_squares skips the whole block: the soft
\* registry after the call is the registry before it.
C11_NaNBlockSkipped ==
  [][(last'.op = AddOp /\ last'.nan) => constraints' = constraints]_vars

\* C12: add_constraints_to_least_squares called with A and idc of different
\* shapes returns without raising and leaves the soft, equality and inequality
\* registries, c and up_to_date as they were.
C12_ShapeMismatchRejected ==
  [][(last'.op = AddOp /\ last'.ashape # last'.ishape) =>
       /\ last'.ret = "rejected"
       /\ Registries' = Registries
       /\ c' = c /\ up_to_date' = up_to_date
    ]_vars

\* a mismatched block turned away from a registry that holds a block
C12_Witness ==
  /\ last.op = AddOp /\ last.ashape # last.ishape /\ last.ret = "rejected"
  /\ constraints # <<>>

\* the weight is neither a scalar nor an array, or an array whose length is not
\* the row count A.shape[0] of the block as passed
MalformedWeight(call) ==
  \/ call.wkind = "other"
  \/ call.wkind = "array" /\ call.wlen # call.rows

\* C13: add_constraints_to_least_squares called, with A and idc of one shape,
\* with a weight that is neither a scalar nor an array, or an array whose length
\* differs from the row count of the block, raises; no block is registered and
\* the blocks already stored are left as they were.
C13_MalformedWeightRaises ==
  [][(last'.op = AddOp /\ last'.ashape = last'.ishape /\ MalformedWeight(last')) =>
       /\ last'.ret = "raise"
       /\ constraints' = constraints
    ]_vars

\* a weight array of the wrong length refused by a registry that holds a block
C13_Witness ==
  /\ last.op = AddOp /\ last.ret = "raise"
  /\ last.wkind = "array" /\ last.wlen # last.rows
  /\ constraints # <<>>

\* ------------------------------------------------------------------ assembly
\* the rows of the blocks whose weight array is not empty
LiveRows(d) ==
  SumSeq([i \in 1 .. Len(d) |-> IF Len(d[i].val.w) = 0 THEN 0 ELSE d[i].val.matrix.shape[1]])

BuildMatrixFrame ==
  /\ Registries' = Registries
  /\ c' = c /\ up_to_date' = up_to_date

\* C19 as claimed: with at least one soft block registered, build_matrix returns
\* a matrix of as many rows as the blocks with a non-empty weight array hold and
\* of nx columns, with b of that many entries, and changes no registry, c or
\* up_to_date.
C19_ShapeOfAssembly ==
  [][(last'.op = "build_matrix" /\ constraints # <<>>) =>
       /\ last'.ret = "ok"
       /\ last'.shape = <<LiveRows(constraints), nx>>
       /\ last'.blen = LiveRows(constraints)
       /\ BuildMatrixFrame
    ]_vars

\* C19 as the code has it: with at least one registered soft block whose weight
\* array is not empty, build_matrix returns a matrix of as many rows as those
\* blocks hold and of nx columns, with b of that many entries; with none (an
\* empty registry, or only blocks with an empty weight array) it raises; either
\* way it changes no registry, c or up_to_date.
C19_ShapeOfLiveAssembly ==
  [][last'.op = "build_matrix" =>
       /\ IF \E i \in 1 .. Len(constraints) : Len(constraints[i].val.w) # 0
            THEN /\ last'.ret = "ok"
                 /\ last'.shape = <<LiveRows(constraints), nx>>
                 /\ last'.blen = LiveRows(constraints)
            ELSE last'.ret = "raise"
       /\ BuildMatrixFrame
    ]_vars

\* an assembly over a block of two rows and a block with no weight
C19_Witness ==
  /\ last.op = "build_matrix" /\ last.ret = "ok"
  /\ Len(constraints) = 2
  /\ \E i \in 1 .. 2 : Len(constraints[i].val.w) = 0
  /\ last.shape = <<2, nx>>
\* ------------------------------------------------------------------ equality
Lookup(d, k) == d[CHOOSE i \in 1 .. Len(d) : d[i].key = k].val

\* the rows held by the stored equality blocks
EqRows(d) == UNION {{d[e].val.row[k] : k \in 1 .. Len(d[e].val.row)} : e \in 1 .. Len(d)}

\* C14: after any sequence of add_equality_constraints calls, calls repeated
\* under one name included, eq_const_c is the number of equality rows held by
\* the stored blocks, and the row ranges of the stored blocks are pairwise
\* disjoint and together cover exactly 0 .. eq_const_c - 1.
C14_CounterMatchesRows ==
  /\ eq_const_c = SumSeq([e \in 1 .. Len(equal_constraints) |-> Len(equal_constraints[e].val.row)])
  /\ \A e, f \in 1 .. Len(equal_constraints) :
       e # f => \A k \in 1 .. Len(equal_constraints[e].val.row) :
                  \A l \in 1 .. Len(equal_constraints[f].val.row) :
                    equal_constraints[e].val.row[k] # equal_constraints[f].val.row[l]
  /\ EqRows(equal_constraints) = 0 .. (eq_const_c - 1)

\* the entries of a node list that lie in the active region, in order
Surviving(node_idx) ==
  SelectSeq([i \in 1 .. Len(node_idx) |-> i], LAMBDA i : node_idx[i] \in region)

\* C16: add_equality_constraints drops every entry whose node lies outside the
\* active region: the columns of the stored block are the region columns, all
\* in 0 .. nx - 1, of the surviving nodes, its targets are the values of the
\* surviving entries in order, and eq_const_c grows by the surviving count.
C16_OutsideDropped ==
  [][last'.op = "add_equality_constraints" =>
       LET blk == Lookup(equal_constraints', last'.name)
           keep == Surviving(last'.nodes)
       IN /\ \A k \in 1 .. Len(blk.col) : blk.col[k] \in 0 .. (nx - 1)
          /\ blk.col = [k \in 1 .. Len(keep) |-> Rank(last'.nodes[keep[k]])]
          /\ blk.B = [k \in 1 .. Len(keep) |-> last'.values[keep[k]]]
          /\ eq_const_c' = eq_const_c + Len(keep)
    ]_vars

\* of two entries the second survived: node 0 dropped, node 1 kept with its 1
C16_Witness ==
  /\ last.op = "add_equality_constraints"
  /\ last.nodes = <<0, 1>> /\ 0 \notin region
  /\ Lookup(equal_constraints, last.name).B = <<1>>
  /\ Lookup(equal_constraints, last.name).col = <<0>>
\* -------------------------------------------------------------------- region
\* C15: for a region that is a strict subset of the nodes, nx is the number of
\* active nodes, region_map takes the active nodes, in ascending order, one to
\* one onto 0 .. nx - 1, and takes every inactive node to -1.
C15_RegionMapSentinel ==
  region # Nodes =>
    /\ nx = Cardinality(region)
    /\ {region_map[i] : i \in region} = 0 .. (nx - 1)
    /\ \A i, j \in region : i < j => region_map[i] < region_map[j]
    /\ \A i \in Nodes \ region : region_map[i] = -1

\* --------------------------------------------------------------------- reset
\* C17: reset() empties the soft registry and sets c_ to 0, and leaves the
\* equality registry and eq_const_c, the inequality registry,
\* interpolation_weights, c, up_to_date and self.solver as they were.
C17_ResetFrame ==
  [][last'.op = "reset" =>
       /\ constraints' = <<>> /\ c_' = 0
       /\ UNCHANGED <<equal_constraints, eq_const_c, ineq_constraints,
                      interpolation_weights, c, up_to_date, solver>>
    ]_vars

\* a reset after a solve, with every other registry populated
C17_Witness ==
  /\ last.op = "reset" /\ constraints = <<>>
  /\ used # None /\ up_to_date /\ \E i \in Nodes : c[i] # 0
  /\ equal_constraints # <<>> /\ eq_const_c > 0
  /\ ineq_constraints # <<>> /\ interpolation_weights # <<>>

\* ------------------------------------------------------------- inequalities
\* C18: solve_system does not consume the inequality constraints: the outcomes
\* it can have (return value, c and up_to_date) are those that the strategy,
\* the soft registry and the flag determine, all of them and no other, whatever
\* the inequality registry holds, so that two interpolators that differ only in
\* their inequality registries solve alike; and the call leaves the inequality
\* registry unchanged.
C18_InequalitiesNotConsumed ==
  /\ [](\A o \in solve_system(Str("cg"), constraints, up_to_date) :
          ENABLED (/\ SolveSystem(Str("cg"))
                   /\ last'.ret = o.ret /\ c' = o.c /\ up_to_date' = o.up_to_date))
  /\ [][last'.op = "solve_system" =>
          /\ ineq_constraints' = ineq_constraints
          /\ \E o \in solve_system(last'.arg, constraints, up_to_date) :
               o.ret = last'.ret /\ o.c = c' /\ o.up_to_date = up_to_date'
       ]_vars

\* a solve that succeeded with an inequality block registered
C18_Witness ==
  /\ last.op = "solve_system" /\ last.ret = "True" /\ last.solved
  /\ ineq_constraints # <<>>

\* ---------------------------------------------------------------- evaluation
\* C20: evaluate_value masks out every point with a NaN coordinate: no such
\* point is passed to the Support's evaluate_value, its slot of the result is
\* 0, and the slots of the other points hold the Support's values for them.
C20_NaNPointsMasked ==
  (last.op = "evaluate_value" /\ last.ret # "raise") =>
    /\ \A i \in 1 .. Len(last.pts) : ~isnan(last.pts[i])
    /\ Len(last.out) = Len(last.locs)
    /\ \A i \in 1 .. Len(last.locs) :
         last.out[i] = IF isnan(last.locs[i]) THEN 0 ELSE SupportValue(last.locs[i], c)
\* --------------------------------------------------------------- convergence
\* C21: a conjugate-gradient solve that ends on its iteration limit without
\* converging is no failure: solve_system does not raise, stores the last
\* iterate, a vector of one entry per unknown (n_nodes entries when the region
\* takes every node), in c, sets up_to_date and returns true.
C21_CgLastIterateKept ==
  [][(last'.op = "solve_system" /\ used' = Str("cg") /\ last'.solved /\ last'.info > 0) =>
       /\ last'.ret = "True"
       /\ c' = last'.x
       /\ VecLen(c') = nx
       /\ region = Nodes => VecLen(c') = NNodes
       /\ up_to_date'
    ]_vars

\* cg stopped on an iterate that does not satisfy the one registered row
C21_Witness ==
  /\ last.op = "solve_system" /\ used = Str("cg") /\ last.solved /\ last.info > 0
  /\ region = Nodes /\ c = last.x /\ c[1] = 5
  /\ last.ret = "True" /\ up_to_date
\* C22: for the lsmr strategy the termination code decides what c holds after
\* the call: for the codes 1, 2, 4, 5 of a solution, the code 0 of the all-zero
\* solution and the code 7 of the iteration limit, the backend's vector; for
\* the codes 3 and 6 of ill-conditioning, the all-NaN vector.
C22_LsmrCodeDecides ==
  [][(last'.op = "solve_system" /\ used' = Str("lsmr") /\ last'.solved) =>
       c' = IF last'.info \in {0, 1, 2, 4, 5, 7} THEN last'.x ELSE Vec(NNodes, NaN)
    ]_vars
\* C23: build_inequality_matrix stacks the registered inequality blocks row on
\* row: Q has as many rows as the blocks together and nx columns, and bounds
\* is the blocks' bounds one under the other, a (lower, upper) pair per row of
\* Q, row j of bounds bounding row j of Q.
C23_BoundsStackedByRow ==
  (last.op = "build_inequality_matrix" /\ ineq_constraints # <<>>) =>
    /\ last.ret = "ok"
    /\ last.shape = <<SumSeq([i \in 1 .. Len(ineq_constraints) |->
                                Len(ineq_constraints[i].val.bounds)]), nx>>
    /\ last.bounds = Concat([i \in 1 .. Len(ineq_constraints) |-> ineq_constraints[i].val.bounds])
\* C24: a solve attempt that does not succeed keeps the cached solution:
\* whenever solve_system, called directly or by update(), returns false or
\* raises, c and up_to_date are what they were before the call; so in every
\* reachable state up_to_date true means c is not the all-NaN placeholder.
C24_FailedSolveKeepsSolution ==
  /\ [][(last'.entered /\ last'.ret \in {"False", "raise"}) =>
          (c' = c /\ up_to_date' = up_to_date)]_vars
  /\ [](up_to_date => c # Vec(NNodes, NaN))
====
